---- MODULE Spec2Model ----
(***************************************************************************)
(* Model of avl_rmq<int,int> (src/include/avl_rmq.hpp): an AVL tree keyed  *)
(* by positional rank whose nodes cache the minimum of their subtree.      *)
(* A tree is a nested record; Nil stands for nullptr.  Each public method  *)
(* is one action; the recursive protected methods are RECURSIVE operators  *)
(* computed the way the code computes them.                                *)
(***************************************************************************)
EXTENDS Integers, Sequences, FiniteSets

\* ------------------------------------------------------------------ bounds
MaxNodes == 6        \* inserts stop when the tree holds this many nodes
MaxGarbage == 2      \* the indeterminate initial n_nodes is sampled up to this distance from 0

\* --------------------------------------------------------- program constants
VMax == 2147483647   \* std::numeric_limits<int>::max()
DepthMod == 256      \* d_t is uint8_t for K = int
Int8Half == 128      \* int8_t balance

\* the values stored: two distinct values tell any two elements apart and
\* decide every comparison of minima
Values == {0, 1}

\* the values the uninitialised counter may hold: 0, and a value on each side
Garbage == {0 - MaxGarbage, 0, MaxGarbage}

VARIABLES
    root,      \* avl_rmq::root, the tree (Nil or a node record)
    n_nodes,   \* avl_rmq::n_nodes, the counter (never initialised by the constructor)
    op,        \* the last public call: its kind, and the arguments of a mutator
    ret,       \* the value the last query returned (0 for void calls)
    vec,       \* the vector the last to_vector() returned
    list       \* mirror: the same inserts and updates applied to a naive list

vars == <<root, n_nodes, op, ret, vec, list>>

\* ------------------------------------------------------------------- nodes
Nil == [nil |-> TRUE]

\* node_t that takes every new node to have local rank 1
node_t_rank_one(rank, value, min, depth, left, right) ==
    [rank |-> 1, value |-> value, min |-> min, depth |-> depth,
     left |-> left, right |-> right]

node_t(rank, value, min, depth, left, right) ==
    [rank |-> rank, value |-> value, min |-> min, depth |-> depth,
     left |-> left, right |-> right]

std_min(a, b) == IF b < a THEN b ELSE a

std_max(a, b) == IF a < b THEN b ELSE a

\* update_min that never resets min to the node's own value
update_min_no_reset(node) ==
    LET m0 == std_min(node.min, node.value)
        m1 == IF node.left # Nil THEN std_min(m0, node.left.min) ELSE m0
        m2 == IF node.right # Nil THEN std_min(m1, node.right.min) ELSE m1
    IN [node EXCEPT !.min = m2]

update_min(node) ==
    LET m0 == node.value
        m1 == IF node.left # Nil THEN std_min(m0, node.left.min) ELSE m0
        m2 == IF node.right # Nil THEN std_min(m1, node.right.min) ELSE m1
    IN [node EXCEPT !.min = m2]

get_depth(node) == IF node = Nil THEN 0 ELSE node.depth

get_min(node) == IF node = Nil THEN VMax ELSE node.min

\* the conversion of an int to int8_t
to_int8(x) == ((x + Int8Half) % (2 * Int8Half)) - Int8Half

\* get_balance with the two depths exchanged
get_balance_swapped(node) ==
    IF node = Nil THEN 0
    ELSE to_int8(get_depth(node.right) - get_depth(node.left))

get_balance(node) ==
    IF node = Nil THEN 0
    ELSE to_int8(get_depth(node.left) - get_depth(node.right))

\* depth = max(depth(left), depth(right)) + 1, stored in a d_t
new_depth(node) == (std_max(get_depth(node.left), get_depth(node.right)) + 1) % DepthMod

\* --------------------------------------------------------------- rotations
\* right_rotate that forgets y->rank -= x->rank
right_rotate_rank_kept(y) ==
    LET x == y.left
        tmp == x.right
        y1 == [y EXCEPT !.left = tmp]
        y2 == update_min(y1)
        y3 == [y2 EXCEPT !.depth = new_depth(y2)]
        x1 == [x EXCEPT !.right = y3, !.min = y.min]
    IN [x1 EXCEPT !.depth = new_depth(x1)]

\* right_rotate that recomputes x's depth before y's
right_rotate_stale_depth(y) ==
    LET x == y.left
        tmp == x.right
        y1 == [y EXCEPT !.left = tmp, !.rank = y.rank - x.rank]
        y2 == update_min(y1)
        x1 == [x EXCEPT !.right = y2, !.min = y.min]
        x2 == [x1 EXCEPT !.depth = new_depth(x1)]
    IN [x2 EXCEPT !.right = [y2 EXCEPT !.depth = new_depth(y2)]]

right_rotate(y) ==
    LET x == y.left
        tmp == x.right
        y1 == [y EXCEPT !.left = tmp, !.rank = y.rank - x.rank]
        y2 == update_min(y1)
        y3 == [y2 EXCEPT !.depth = new_depth(y2)]
        x1 == [x EXCEPT !.right = y3, !.min = y.min]
    IN [x1 EXCEPT !.depth = new_depth(x1)]

\* left_rotate that forgets y->rank += x->rank
left_rotate_rank_kept(x) ==
    LET y == x.right
        tmp == y.left
        x1 == [x EXCEPT !.right = tmp]
        x2 == update_min(x1)
        x3 == [x2 EXCEPT !.depth = new_depth(x2)]
        y1 == [y EXCEPT !.left = x3, !.min = x.min]
    IN [y1 EXCEPT !.depth = new_depth(y1)]

left_rotate(x) ==
    LET y == x.right
        tmp == y.left
        x1 == [x EXCEPT !.right = tmp]
        x2 == update_min(x1)
        x3 == [x2 EXCEPT !.depth = new_depth(x2)]
        y1 == [y EXCEPT !.left = x3, !.rank = y.rank + x.rank, !.min = x.min]
    IN [y1 EXCEPT !.depth = new_depth(y1)]

\* ------------------------------------------------------------------ insert
\* rebalance that forgets the right-heavy case
rebalance_left_only(node, rank) ==
    LET balance == get_balance(node)
    IN IF balance > 1
       THEN right_rotate(IF rank > node.left.rank
                         THEN [node EXCEPT !.left = left_rotate(node.left)]
                         ELSE node)
       ELSE node

\* rotation_case that compares rank with the right child's rank without
\* first subtracting node->rank
rotation_case_unadjusted(node, rank) ==
    LET balance == get_balance(node)
    IN IF balance > 1
       THEN (IF rank > node.left.rank THEN "LR" ELSE "LL")
       ELSE IF balance < -1
       THEN (IF rank < node.right.rank THEN "RL" ELSE "RR")
       ELSE "none"

\* rotation_case that never chooses a double rotation
rotation_case_single(node, rank) ==
    LET balance == get_balance(node)
    IN IF balance > 1 THEN "LL"
       ELSE IF balance < -1 THEN "RR"
       ELSE "none"

\* the tests of the "Rotate if unbalanced" tail of insert: node has its new
\* child, min and depth; rank is the position insert was called with at node
rotation_case(node, rank) ==
    LET balance == get_balance(node)
    IN IF balance > 1
       THEN (IF rank > node.left.rank THEN "LR" ELSE "LL")
       ELSE IF balance < -1
       THEN (IF rank - node.rank < node.right.rank THEN "RL" ELSE "RR")
       ELSE "none"

\* the "Rotate if unbalanced" tail of insert
rebalance(node, rank) ==
    LET c == rotation_case(node, rank)
    IN IF c = "LR" THEN right_rotate([node EXCEPT !.left = left_rotate(node.left)])
       ELSE IF c = "LL" THEN right_rotate(node)
       ELSE IF c = "RL" THEN left_rotate([node EXCEPT !.right = right_rotate(node.right)])
       ELSE IF c = "RR" THEN left_rotate(node)
       ELSE node

\* insert with the tie sent right: rank == node.rank descends right
RECURSIVE insert_tie_right(_, _, _)
insert_tie_right(node, rank, value) ==
    IF node = Nil THEN node_t(rank, value, value, 1, Nil, Nil)
    ELSE
      LET n1 == IF rank < node.rank
                THEN [node EXCEPT !.left = insert_tie_right(node.left, rank, value),
                                  !.rank = node.rank + 1]
                ELSE [node EXCEPT
                        !.right = insert_tie_right(node.right, rank - node.rank, value)]
          n2 == [n1 EXCEPT !.min = std_min(n1.min, value)]
          n3 == [n2 EXCEPT !.depth = new_depth(n2)]
      IN rebalance(n3, rank)

RECURSIVE insert(_, _, _)

\* the descent test of insert: ties go left
goes_left(node, rank) == rank <= node.rank

\* the position handed to the child insert descends into
child_rank(node, rank) == IF goes_left(node, rank) THEN rank ELSE rank - node.rank

\* descend that forgets node->rank++ on the way left
descend_rank_kept(node, rank, value) ==
    LET n1 == IF goes_left(node, rank)
              THEN [node EXCEPT !.left = insert(node.left, rank, value)]
              ELSE [node EXCEPT !.right = insert(node.right, rank - node.rank, value)]
        n2 == [n1 EXCEPT !.min = std_min(n1.min, value)]
    IN [n2 EXCEPT !.depth = new_depth(n2)]

\* insert at a present node, up to the balance test: the child is inserted
\* into, rank is incremented on a left descent, min and depth are updated
descend(node, rank, value) ==
    LET n1 == IF goes_left(node, rank)
              THEN [node EXCEPT !.left = insert(node.left, rank, value),
                                !.rank = node.rank + 1]
              ELSE [node EXCEPT !.right = insert(node.right, rank - node.rank, value)]
        n2 == [n1 EXCEPT !.min = std_min(n1.min, value)]
    IN [n2 EXCEPT !.depth = new_depth(n2)]

insert(node, rank, value) ==
    IF node = Nil THEN node_t(rank, value, value, 1, Nil, Nil)
    ELSE rebalance(descend(node, rank, value), rank)

\* The nodes insert(node, rank, value) passes on its way back up, each as it
\* stands at its balance test: before is the node as the call found it, node
\* is it with the new child, rank, min and depth, rank is the position the
\* call was made with there, and spine tells whether the node is reached
\* from the root by left links only.
RECURSIVE UnwindNodes(_, _, _, _)
UnwindNodes(node, rank, value, spine) ==
    IF node = Nil THEN {}
    ELSE {[before |-> node, node |-> descend(node, rank, value),
           rank |-> rank, spine |-> spine]}
         \cup (IF goes_left(node, rank)
               THEN UnwindNodes(node.left, child_rank(node, rank), value, spine)
               ELSE UnwindNodes(node.right, child_rank(node, rank), value, FALSE))

\* the arguments of the right_rotate calls made at a node on the way back up
RightRotateArgs(u) ==
    LET c == rotation_case(u.node, u.rank)
    IN IF c = "LL" THEN {u.node}
       ELSE IF c = "LR"
       THEN {[u.node EXCEPT !.left = left_rotate(u.node.left)]}
       ELSE IF c = "RL" THEN {u.node.right}
       ELSE {}

\* the arguments of the left_rotate calls made at a node on the way back up
LeftRotateArgs(u) ==
    LET c == rotation_case(u.node, u.rank)
    IN IF c = "RR" THEN {u.node}
       ELSE IF c = "RL"
       THEN {[u.node EXCEPT !.right = right_rotate(u.node.right)]}
       ELSE IF c = "LR" THEN {u.node.left}
       ELSE {}

\* ------------------------------------------------------------------ search
RECURSIVE search(_, _)
search(node, rank) ==
    IF node = Nil THEN Nil
    ELSE IF rank < node.rank THEN search(node.left, rank)
    ELSE IF rank > node.rank THEN search(node.right, rank - node.rank)
    ELSE node

\* ------------------------------------------------------------------ update
\* update that clamps: past the last node of the descent it overwrites that node
RECURSIVE update_clamped(_, _, _)
update_clamped(node, rank, value) ==
    IF node = Nil THEN Nil
    ELSE
      LET node_rank == node.rank
          n1 == IF rank < node_rank /\ node.left # Nil
                THEN [node EXCEPT !.left = update_clamped(node.left, rank, value)]
                ELSE IF rank > node_rank /\ node.right # Nil
                THEN [node EXCEPT
                        !.right = update_clamped(node.right, rank - node_rank, value)]
                ELSE [node EXCEPT !.value = value]
      IN update_min(n1)

RECURSIVE update(_, _, _)
update(node, rank, value) ==
    IF node = Nil THEN Nil
    ELSE
      LET node_rank == node.rank
          n1 == IF rank < node_rank
                THEN [node EXCEPT !.left = update(node.left, rank, value)]
                ELSE IF rank > node_rank
                THEN [node EXCEPT !.right = update(node.right, rank - node_rank, value)]
                ELSE [node EXCEPT !.value = value]
      IN update_min(n1)

\* --------------------------------------------------------------- min_range
RECURSIVE min_range(_, _, _, _)
min_range(node, left, right, include_right) ==
    IF node = Nil \/ left = right THEN VMax
    ELSE
      LET node_rank == node.rank IN
      IF node_rank >= right THEN min_range(node.left, left, right, FALSE)
      ELSE IF node_rank < left
      THEN min_range(node.right, left - node_rank, right - node_rank, FALSE)
      ELSE
        LET m0 == node.value
            m1 == IF include_right THEN std_min(m0, get_min(node.right)) ELSE m0
            m2 == IF left = 0
                  THEN std_min(m1, get_min(node.left))
                  ELSE std_min(m1, min_range(node.left, left, node_rank, TRUE))
        IN std_min(m2, min_range(node.right, 0, right - node_rank, FALSE))

\* operator() short-circuiting on right > n_nodes alone
range_min_any_left(rt, nn, left, right) ==
    IF right > nn THEN get_min(rt)
    ELSE min_range(rt, left, right, right > nn)

\* S operator()(K left, K right), on a tree rt whose counter reads nn
range_min(rt, nn, left, right) ==
    IF left = 0 /\ right > nn THEN get_min(rt)
    ELSE min_range(rt, left, right, right > nn)

\* The calls of min_range one call of it makes, itself included, each with its
\* arguments and with the place it was called from: "top" (operator()),
\* "above" (the node_rank >= right branch), "below" (the node_rank < left
\* branch), "left" (the left recursion of an in-range node), "right" (the
\* closing right recursion of an in-range node visited with include_right
\* false) or "right_included" (the same call, from an in-range node visited
\* with include_right true).
RECURSIVE min_range_calls(_, _, _, _, _)
min_range_calls(node, left, right, include_right, from) ==
    {[node |-> node, left |-> left, right |-> right,
      include_right |-> include_right, from |-> from]}
    \cup
    (IF node = Nil \/ left = right THEN {}
     ELSE
       LET node_rank == node.rank IN
       IF node_rank >= right
       THEN min_range_calls(node.left, left, right, FALSE, "above")
       ELSE IF node_rank < left
       THEN min_range_calls(node.right, left - node_rank, right - node_rank,
                            FALSE, "below")
       ELSE
         (IF left = 0 THEN {}
          ELSE min_range_calls(node.left, left, node_rank, TRUE, "left"))
         \cup min_range_calls(node.right, 0, right - node_rank, FALSE,
                              IF include_right THEN "right_included" ELSE "right"))

\* the calls of min_range made by operator()(left, right)
range_min_calls(rt, nn, left, right) ==
    IF left = 0 /\ right > nn THEN {}
    ELSE min_range_calls(rt, left, right, right > nn, "top")

\* S operator[](K rank): the set of results the call can produce.  When search
\* returns nullptr the call dereferences it: the process is killed (Segv) or
\* the read yields an arbitrary value.
Segv == 0 - 1

access(rt, nn, rank) ==
    IF rt = Nil \/ rank >= nn THEN {0}
    ELSE LET r == search(rt, rank)
         IN IF r = Nil THEN {Segv} \cup Values ELSE {r.value}

\* ------------------------------------------------------------- measurement
RECURSIVE Size(_)
Size(t) == IF t = Nil THEN 0 ELSE 1 + Size(t.left) + Size(t.right)

RECURSIVE to_vector(_)
to_vector(node) ==
    IF node = Nil THEN <<>>
    ELSE to_vector(node.left) \o <<node.value>> \o to_vector(node.right)

\* the naive list: insert v before index p (0-based)
ListInsert(s, p, v) == SubSeq(s, 1, p) \o <<v>> \o SubSeq(s, p + 1, Len(s))

NoOp == [kind |-> "new", a |-> 0, b |-> 0]

\* ----------------------------------------------------------------- actions
\* avl_rmq(): root(nullptr); n_nodes is left indeterminate
Init ==
    /\ root = Nil
    /\ n_nodes \in Garbage
    /\ op = NoOp
    /\ ret = 0
    /\ vec = <<>>
    /\ list = <<>>

\* void insert(K rank, S value)
Insert(p, v) ==
    /\ root' = insert(root, p, v)
    /\ n_nodes' = n_nodes + 1
    /\ op' = [kind |-> "insert", a |-> p, b |-> v]
    /\ ret' = 0
    /\ vec' = <<>>
    /\ list' = ListInsert(list, p, v)

\* void update(K rank, S value)
Update(p, v) ==
    /\ root' = update(root, p, v)
    /\ n_nodes' = n_nodes
    /\ op' = [kind |-> "update", a |-> p, b |-> v]
    /\ ret' = 0
    /\ vec' = <<>>
    /\ list' = IF p < Len(list) THEN [list EXCEPT ![p + 1] = v] ELSE list

\* operator[] that creates the element it does not find, as std::map does
Access_default_insert(p) ==
    /\ root' = IF search(root, p) = Nil THEN insert(root, p, 0) ELSE root
    /\ n_nodes' = IF search(root, p) = Nil THEN n_nodes + 1 ELSE n_nodes
    /\ ret' = IF search(root, p) = Nil THEN 0 ELSE search(root, p).value
    /\ op' = [kind |-> "access", a |-> 0, b |-> 0]
    /\ vec' = <<>>
    /\ UNCHANGED list

\* S operator[](K rank)
Access(p) ==
    /\ ret' \in access(root, n_nodes, p)
    /\ op' = [kind |-> "access", a |-> 0, b |-> 0]
    /\ vec' = <<>>
    /\ UNCHANGED <<root, n_nodes, list>>

\* S operator()(K left, K right)
RangeMin(lo, hi) ==
    /\ ret' = range_min(root, n_nodes, lo, hi)
    /\ op' = [kind |-> "range_min", a |-> 0, b |-> 0]
    /\ vec' = <<>>
    /\ UNCHANGED <<root, n_nodes, list>>

\* std::vector<S> to_vector()
ToVector ==
    /\ vec' = to_vector(root)
    /\ op' = [kind |-> "to_vector", a |-> 0, b |-> 0]
    /\ ret' = 0
    /\ UNCHANGED <<root, n_nodes, list>>

\* The caller holds a sequence of n = Size(root) elements.  It inserts at the
\* valid positions 0..n; it updates and reads the positions 0..n, the last of
\* them past the end; it queries every interval lo <= hi <= n + 1.
InsertPositions == IF Size(root) < MaxNodes THEN 0..Size(root) ELSE {}

Positions == 0..Size(root)

Bounds == 0..(Size(root) + 1)

Next ==
    \/ \E p \in InsertPositions, v \in Values : Insert(p, v)
    \/ \E p \in Positions, v \in Values : Update(p, v)
    \/ \E p \in Positions : Access(p)
    \/ \E hi \in Bounds : \E lo \in 0..hi : RangeMin(lo, hi)
    \/ ToVector

Spec == Init /\ [][Next]_vars

\* The caller that only inserts.  update changes no link, rank or depth and
\* the queries change nothing, so the trees of Spec are the trees of this
\* specification with their values updated; the claims about the inside of
\* one insert are checked on these.
InsertNext == \E p \in InsertPositions, v \in Values : Insert(p, v)

InsertSpec == Init /\ [][InsertNext]_vars

\* ============================================================== properties
\* The claims speak of the sequence A = to_vector(root) and of n, the number
\* of its elements (what the counter n_nodes is meant to hold).  A step that
\* ends with op.kind = "update" is the call update(op.a, op.b), and likewise
\* for insert.

\* the least element of a non-empty set of integers
SetMin(S) == CHOOSE x \in S : \A y \in S : x <= y

\* the minimum of s[lo..hi) (0-based, half-open), VMax when it is empty
SliceMin(s, lo, hi) ==
    LET idx == {i \in 1..Len(s) : lo < i /\ i <= hi}
    IN IF idx = {} THEN VMax ELSE SetMin({s[i] : i \in idx})

RECURSIVE Height(_)
Height(t) == IF t = Nil THEN 0 ELSE 1 + std_max(Height(t.left), Height(t.right))

\* ---------------------------------------------------------------------- C1
\* C1 (as stated): for every 0 <= lo <= hi <= n, range_min(lo, hi) is the
\* minimum of to_sequence()[lo..hi), and VMax when lo = hi.
C1_RangeMinIsSliceMin ==
    \A hi \in 0..Size(root) : \A lo \in 0..hi :
        range_min(root, n_nodes, lo, hi) = SliceMin(to_vector(root), lo, hi)

\* C1, where the counter holds the number of elements: the claim holds there,
\* so it fails only through the uninitialised counter of C8.
C1_HoldsWhenCounted == (n_nodes = Size(root)) => C1_RangeMinIsSliceMin

\* ---------------------------------------------------------------------- C2
\* C2: after any sequence of valid inserts and of updates, the in-order
\* traversal of the tree equals the naive list given the same operations.
C2_RefinesNaiveList == to_vector(root) = list

\* C2 witness: an insert at an occupied position has pushed a different
\* element to the right, in a tree of at least five elements.
C2_Witness ==
    /\ op.kind = "insert"
    /\ Len(list) >= 5
    /\ op.a + 2 <= Len(list)
    /\ list[op.a + 1] = op.b
    /\ list[op.a + 2] # op.b
    /\ to_vector(root) = list

\* ---------------------------------------------------------------------- C3
\* C3 (as stated): for every 0 <= p < n the descent of access(p) finds a
\* node and access(p) returns A[p].
C3_AccessReturnsElement ==
    \A p \in 0..(Size(root) - 1) :
        /\ search(root, p) # Nil
        /\ access(root, n_nodes, p) = {to_vector(root)[p + 1]}

\* C3, where the counter holds the number of elements.
C3_HoldsWhenCounted == (n_nodes = Size(root)) => C3_AccessReturnsElement

\* the descent itself finds the p-th element whatever the counter holds
C3_SearchFindsElement ==
    \A p \in 0..(Size(root) - 1) :
        /\ search(root, p) # Nil
        /\ search(root, p).value = to_vector(root)[p + 1]

\* ---------------------------------------------------------------------- C4
\* what update(p, v) may change between tree t and tree t2: the value of the
\* node the descent for p stops at, and the min fields on the way to it
RECURSIVE PathFrame(_, _, _)
PathFrame(t, t2, p) ==
    IF t = Nil THEN t2 = Nil
    ELSE /\ t2 # Nil
         /\ t2.rank = t.rank
         /\ t2.depth = t.depth
         /\ IF p < t.rank
            THEN /\ t2.value = t.value
                 /\ t2.right = t.right
                 /\ PathFrame(t.left, t2.left, p)
            ELSE IF p > t.rank
            THEN /\ t2.value = t.value
                 /\ t2.left = t.left
                 /\ PathFrame(t.right, t2.right, p - t.rank)
            ELSE /\ t2.left = t.left
                 /\ t2.right = t.right

\* the effect of update(p, v) on the tree and the counter, for 0 <= p < n
UpdateFrame(p, v) ==
    /\ to_vector(root') = [to_vector(root) EXCEPT ![p + 1] = v]
    /\ PathFrame(root, root', p)
    /\ n_nodes' = n_nodes

\* C4 (as stated): for every 0 <= p < n, update(p, v) makes A[p] = v, so that
\* access(p) then returns v, leaves the other positions alone, and leaves
\* shape, ranks, heights and n_nodes unchanged.
C4_UpdateSetsPosition ==
    [][(op'.kind = "update" /\ op'.a < Size(root))
          => /\ UpdateFrame(op'.a, op'.b)
             /\ access(root', n_nodes', op'.a) = {op'.b}]_vars

\* C4 without the access: what update does to the tree holds whatever the
\* counter reads.
C4_UpdateFrameHolds ==
    [][(op'.kind = "update" /\ op'.a < Size(root))
          => UpdateFrame(op'.a, op'.b)]_vars

\* C4, where the counter holds the number of elements.
C4_HoldsWhenCounted ==
    [][(op'.kind = "update" /\ op'.a < Size(root) /\ n_nodes = Size(root))
          => /\ UpdateFrame(op'.a, op'.b)
             /\ access(root', n_nodes', op'.a) = {op'.b}]_vars

\* ---------------------------------------------------------------------- C5
RECURSIVE AVLBalanced(_)
AVLBalanced(t) ==
    \/ t = Nil
    \/ /\ Height(t.left) - Height(t.right) \in {-1, 0, 1}
       /\ get_depth(t.left) - get_depth(t.right) \in {-1, 0, 1}
       /\ AVLBalanced(t.left)
       /\ AVLBalanced(t.right)

\* C5: after every public operation, the heights of the two children of every
\* node differ by at most one (an absent child has height 0).
C5_AVLBalance == AVLBalanced(root)

\* C5 witness: the last insert rotated.  A new node is a leaf unless a double
\* rotation lifts it: here the node at the inserted position has two children.
C5_Witness ==
    /\ op.kind = "insert"
    /\ Size(root) = MaxNodes
    /\ search(root, op.a) # Nil
    /\ search(root, op.a).left # Nil
    /\ search(root, op.a).right # Nil
    /\ AVLBalanced(root)

\* ---------------------------------------------------------------------- C6
RECURSIVE RankIsOnePlusLeft(_)
RankIsOnePlusLeft(t) ==
    \/ t = Nil
    \/ /\ t.rank = 1 + Size(t.left)
       /\ RankIsOnePlusLeft(t.left)
       /\ RankIsOnePlusLeft(t.right)

\* spine is TRUE for the root and the nodes reached from it by left links only
RECURSIVE RankConvention(_, _)
RankConvention(t, spine) ==
    \/ t = Nil
    \/ /\ t.rank = (IF spine THEN 0 ELSE 1) + Size(t.left)
       /\ RankConvention(t.left, spine)
       /\ RankConvention(t.right, FALSE)

\* C6 (as stated): every node, the root and its left spine included, has
\* rank = 1 + size(left).
C6_RankInvariant == RankIsOnePlusLeft(root)

\* C6 (amended): every node has rank = 1 + size(left), except the nodes on
\* the root's left spine, which have rank = size(left).
C6_RankOffSpine == RankConvention(root, TRUE)

\* C6 witness: after an insert that rotated, the root has a left subtree
\* of at least two nodes and a right child with a left subtree of its own.
C6_Witness ==
    /\ op.kind = "insert"
    /\ search(root, op.a) # Nil
    /\ search(root, op.a).left # Nil
    /\ root.rank >= 2
    /\ root.rank = Size(root.left)
    /\ root.right # Nil
    /\ root.right.rank = 1 + Size(root.right.left)
    /\ root.right.rank >= 2

\* ---------------------------------------------------------------------- C7
RECURSIVE MinCached(_)
MinCached(t) ==
    \/ t = Nil
    \/ /\ t.min = std_min(t.value, std_min(get_min(t.left), get_min(t.right)))
       /\ MinCached(t.left)
       /\ MinCached(t.right)

\* C7: after every public operation, every node's min is the minimum of its
\* value and of the min of each child that is present.
C7_SubtreeMin == MinCached(root)

\* C7 witness: an update wrote the largest value at a position of a tree of
\* three nodes or more, and the root's min is now that value: the tree holds
\* nothing smaller.
C7_Witness ==
    /\ op.kind = "update"
    /\ op.a < Size(root)
    /\ Size(root) >= 3
    /\ \A w \in Values : w <= op.b
    /\ root.min = op.b
    /\ MinCached(root)

\* ---------------------------------------------------------------------- C8
\* C8 (as stated): after construction and after every public operation,
\* n_nodes is the number of nodes reachable from the root.
C8_CountInvariant == n_nodes = Size(root)

\* C8, the part that holds: insert adds exactly one to n_nodes and one node to
\* the tree, and no other call changes either.
C8_CountSteps ==
    [][/\ op'.kind = "insert" =>
            (n_nodes' = n_nodes + 1 /\ Size(root') = Size(root) + 1)
       /\ op'.kind # "insert" =>
            (n_nodes' = n_nodes /\ Size(root') = Size(root))]_vars

\* ---------------------------------------------------------------------- C9
\* C9: for every lo >= 0 and every hi > n, range_min(lo, hi) is the minimum
\* of A[lo..n), VMax when lo >= n or the tree is empty, and the root's cached
\* min when lo = 0.
C9_UpperBoundClamped ==
    \A hi \in (Size(root) + 1)..(Size(root) + 2) : \A lo \in 0..hi :
        /\ range_min(root, n_nodes, lo, hi)
               = SliceMin(to_vector(root), lo, Size(root))
        /\ lo = 0 => range_min(root, n_nodes, lo, hi) = get_min(root)

\* C9 witness: a range query returned the minimum of a proper suffix, which a
\* query past the end yields and which is not the minimum of the whole.
C9_Witness ==
    /\ op.kind = "range_min"
    /\ Size(root) >= 5
    /\ ret # get_min(root)
    /\ ret # VMax
    /\ \E lo \in 1..(Size(root) - 1) :
           ret = range_min(root, n_nodes, lo, Size(root) + 1)

\* --------------------------------------------------------------------- C10
\* C10: for every p >= n, update(p, v) matches no node and leaves every
\* node's value, min, rank, height, the shape and n_nodes as they were: so
\* does every such call the caller makes, and so would the descent for the
\* positions n..n+2 in every reachable tree.
C10_UpdatePastEndNoOp ==
    /\ [][(op'.kind = "update" /\ op'.a >= Size(root))
             => /\ search(root, op'.a) = Nil
                /\ root' = root
                /\ n_nodes' = n_nodes]_vars
    /\ [](\A p \in Size(root)..(Size(root) + 2), v \in Values :
             /\ search(root, p) = Nil
             /\ update(root, p, v) = root)

\* C10 witness: an update past the end carried a value below the minimum of
\* a tree of three nodes or more, and the minimum is what it was.
C10_Witness ==
    /\ op.kind = "update"
    /\ op.a >= Size(root)
    /\ Size(root) >= 3
    /\ op.b < root.min

\* --------------------------------------------------------------------- C11
RECURSIVE DepthIsHeight(_)
DepthIsHeight(t) ==
    \/ t = Nil
    \/ /\ t.depth = 1 + std_max(get_depth(t.left), get_depth(t.right))
       /\ t.depth = Height(t)
       /\ DepthIsHeight(t.left)
       /\ DepthIsHeight(t.right)

\* C11: after every public operation, every node's stored height is one more
\* than the larger of its children's stored heights, an absent child counting
\* 0; so a leaf has height 1 and the stored height is the true height.
C11_HeightInvariant == DepthIsHeight(root)

\* C11 witness: an insert left a tree of five nodes or more, of height 3,
\* whose root has children of different heights.
C11_Witness ==
    /\ op.kind = "insert"
    /\ Size(root) >= 5
    /\ root.depth = 3
    /\ get_depth(root.left) # get_depth(root.right)
    /\ DepthIsHeight(root)

\* --------------------------------------------------------------------- C12
\* C12: access, range_min and to_sequence leave the tree (shape and every
\* node's rank, value, min, height) and n_nodes as they were.
C12_QueriesReadOnly ==
    [][op'.kind \in {"access", "range_min", "to_vector"}
          => (root' = root /\ n_nodes' = n_nodes)]_vars

\* C12 witness: to_vector returned the whole of a full tree holding both
\* values, and the tree still holds that sequence.
C12_Witness ==
    /\ op.kind = "to_vector"
    /\ Len(vec) = MaxNodes
    /\ \E i, j \in 1..Len(vec) : vec[i] # vec[j]
    /\ to_vector(root) = vec

\* The claims about one insert are stated of every insert the caller can
\* make next: of insert(p, v) on the reachable tree, for every valid p and v.
PendingInserts == {[p |-> p, v |-> v] : p \in 0..Size(root), v \in Values}

Unwinding(i) == UnwindNodes(root, i.p, i.v, TRUE)

\* the node holding the element the last insert added
NewNode == search(root, op.a)

\* --------------------------------------------------------------------- C13
\* the rotate calls made at a node on the way back up
RotateCalls(u) ==
    LET c == rotation_case(u.node, u.rank)
    IN IF c \in {"LR", "RL"} THEN 2 ELSE IF c \in {"LL", "RR"} THEN 1 ELSE 0

\* C13: within one insert at most one node on the unwinding path is found
\* unbalanced, so no ancestor of the node that rotates rotates too and the
\* insert makes at most two rotate calls.
C13_OneRebalancePerInsert ==
    \A i \in PendingInserts :
        \A u1, u2 \in Unwinding(i) :
            (RotateCalls(u1) > 0 /\ RotateCalls(u2) > 0) => u1 = u2

\* C13 witness: the last insert made a double rotation below the root (the
\* new node has two children and is not the root), and the root did not
\* rotate after it.
C13_Witness ==
    /\ op.kind = "insert"
    /\ NewNode # Nil
    /\ NewNode # root
    /\ NewNode.left # Nil
    /\ NewNode.right # Nil
    /\ get_balance(root) \in {-1, 0, 1}

\* --------------------------------------------------------------------- C14
\* where the new leaf went, read off the sizes of the grandchildren
PlacedIn(u, child, grandchild) ==
    Size(u.node[child][grandchild]) = Size(u.before[child][grandchild]) + 1

\* C14: at a node found left-heavy the test sends the insert to the double
\* rotation exactly when the new leaf is in the right subtree of node.left
\* and to the single one exactly when it is in its left subtree; at a node
\* found right-heavy, to the double rotation exactly when the leaf is in the
\* left subtree of node.right, to the single one exactly when in its right.
C14_CaseSelectionExact ==
    \A i \in PendingInserts : \A u \in Unwinding(i) :
        LET c == rotation_case(u.node, u.rank)
            b == get_balance(u.node)
        IN /\ b > 1 => /\ c = "LR" <=> PlacedIn(u, "left", "right")
                       /\ c = "LL" <=> PlacedIn(u, "left", "left")
                       /\ c \in {"LR", "LL"}
           /\ b < -1 => /\ c = "RL" <=> PlacedIn(u, "right", "left")
                        /\ c = "RR" <=> PlacedIn(u, "right", "right")
                        /\ c \in {"RL", "RR"}

\* C14 witness: the last insert made a double rotation inside the root's
\* right subtree, where positions are translated by the ranks above.
C14_Witness ==
    /\ op.kind = "insert"
    /\ op.a > root.rank
    /\ NewNode # Nil
    /\ NewNode.left # Nil
    /\ NewNode.right # Nil
    /\ Size(root) >= 5

\* --------------------------------------------------------------------- C15
\* the queries 0 <= lo <= hi the caller makes
Queries == {q \in Bounds \X Bounds : q[1] <= q[2]}

QueryCalls(q) == range_min_calls(root, n_nodes, q[1], q[2])

\* C15 (as stated): no call of min_range on n.right is made from an in-range
\* node n visited with include_right = true; its right subtree is answered
\* from the cached min alone.
C15_NoRightRecursionWhenIncluded ==
    \A q \in Queries : \A c \in QueryCalls(q) : c.from # "right_included"

\* C15, what the code does instead: the closing right recursion is made from
\* every in-range node, so each left recursion (which passes include_right =
\* true) that finds its node in range is followed by a right recursion there.
C15_RightRecursionAlways ==
    \A q \in Queries : \A c \in QueryCalls(q) :
        (/\ c.node # Nil
         /\ c.left # c.right
         /\ c.left <= c.node.rank
         /\ c.node.rank < c.right)
        => \E d \in QueryCalls(q) :
               /\ d.node = c.node.right
               /\ d.left = 0
               /\ d.right = c.right - c.node.rank
               /\ d.include_right = FALSE
               /\ d.from = (IF c.include_right THEN "right_included" ELSE "right")

\* --------------------------------------------------------------------- C16
\* the leaf insert(node, rank, value) creates, as created: the descent of
\* insert down to the absent child
RECURSIVE NewLeaf(_, _, _)
NewLeaf(node, rank, value) ==
    IF node = Nil THEN insert(node, rank, value)
    ELSE IF goes_left(node, rank)
    THEN NewLeaf(node.left, child_rank(node, rank), value)
    ELSE NewLeaf(node.right, child_rank(node, rank), value)

LeafOf(leaf, rank, value) ==
    /\ leaf.rank = rank
    /\ leaf.value = value
    /\ leaf.min = value
    /\ leaf.depth = 1
    /\ leaf.left = Nil
    /\ leaf.right = Nil

\* C16 (as stated): every leaf created by insert(p, v), 0 <= p <= n, has
\* local rank 1, value v, min v, height 1 and no children, the insert into
\* the empty tree and the insert at position 0 included.
C16_NewLeafHasRankOne ==
    \A i \in PendingInserts : LeafOf(NewLeaf(root, i.p, i.v), 1, i.v)

\* C16 (amended): the leaf has value v, min v, height 1 and no children, and
\* its local rank is the translated position it was created at: 0 for
\* insert(0, v), whose leaf is the end of the root's left spine (the root
\* itself in the empty tree), and 1 for every other position.
C16_NewLeafRankIsPosition ==
    \A i \in PendingInserts :
        LeafOf(NewLeaf(root, i.p, i.v), IF i.p = 0 THEN 0 ELSE 1, i.v)

\* C16 witness: the last call was insert(0, v) on a tree of several
\* elements, and its leaf sits at the end of the left spine with rank 0,
\* below a leaf's parent of rank 1.
C16_Witness ==
    /\ op.kind = "insert"
    /\ op.a = 0
    /\ Size(root) >= 4
    /\ LeafOf(NewNode, 0, op.b)
    /\ \E q \in 1..(Size(root) - 1) : LeafOf(search(root, q), 1, list[q + 1])

\* --------------------------------------------------------------------- C17
\* the same node, whatever its links, rank and cached fields have become
SameNode(a, b) == a # Nil /\ b # Nil /\ a.value = b.value

\* C17: whenever right_rotate(y) runs during a valid insert, with x = y.left
\* and t = x.right before, afterwards x is the subtree root with x.right = y
\* and y.left = t (the outer subtrees kept), x.rank is unchanged and y.rank,
\* which is old y.rank - x.rank, equals 1 + size(t); and whenever
\* left_rotate(x) runs, with y = x.right, afterwards y is the subtree root
\* with y.left = x and x.right = old y.left, y.rank is old y.rank + x.rank
\* and x.rank is unchanged.
C17_RotationRanks ==
    \A i \in PendingInserts : \A u \in Unwinding(i) :
        /\ \A y \in RightRotateArgs(u) :
               LET x == y.left
                   t == x.right
                   r == right_rotate(y)
               IN /\ SameNode(r, x)
                  /\ r.left = x.left
                  /\ SameNode(r.right, y)
                  /\ r.right.right = y.right
                  /\ r.right.left = t
                  /\ r.rank = x.rank
                  /\ r.right.rank = y.rank - x.rank
                  /\ r.right.rank = 1 + Size(t)
        /\ \A x \in LeftRotateArgs(u) :
               LET y == x.right
                   t == y.left
                   r == left_rotate(x)
               IN /\ SameNode(r, y)
                  /\ r.right = y.right
                  /\ SameNode(r.left, x)
                  /\ r.left.left = x.left
                  /\ r.left.right = t
                  /\ r.rank = y.rank + x.rank
                  /\ r.left.rank = x.rank

\* C17 witness: the last insert ran both rotations (its new node came out of
\* a double rotation with two children, its right child ranked 1 + size of
\* that child's left subtree), and the tree is one on which an insert
\* right-rotates a node whose t is present and one on which an insert
\* left-rotates a node whose inner subtree is present.
C17_Witness ==
    /\ op.kind = "insert"
    /\ NewNode # Nil
    /\ NewNode.left # Nil
    /\ NewNode.right # Nil
    /\ NewNode.right.rank = 1 + Size(NewNode.right.left)
    /\ \E i \in PendingInserts : \E u \in Unwinding(i) :
           \E y \in RightRotateArgs(u) : y.left.right # Nil
    /\ \E i \in PendingInserts : \E u \in Unwinding(i) :
           \E x \in LeftRotateArgs(u) : x.right.left # Nil

\* --------------------------------------------------------------------- C18
\* the convention at one node
RankAt(t, spine) ==
    t # Nil => t.rank = (IF spine THEN 0 ELSE 1) + Size(t.left)

\* C18: the rank convention the code keeps.  In every reachable tree the
\* nodes of the root's left spine have rank = size(left) and all others
\* rank = 1 + size(left); and within every valid insert each node on the
\* unwinding path keeps it at each step: after the descent, with its rank++
\* when the leaf went left, and after its rotations, for the three nodes
\* a rotation rehangs; every update keeps it too.
C18_RankConventionKept ==
    /\ RankConvention(root, TRUE)
    /\ \A i \in PendingInserts : \A u \in Unwinding(i) :
          LET r == rebalance(u.node, u.rank)
          IN /\ RankAt(u.node, u.spine)
             /\ u.node.rank = u.before.rank + (IF goes_left(u.before, u.rank) THEN 1 ELSE 0)
             /\ RankAt(r, u.spine)
             /\ RankAt(r.left, u.spine)
             /\ RankAt(r.right, FALSE)
    /\ \A p \in Positions, v \in Values : RankConvention(update(root, p, v), TRUE)

\* C18 witness: after an insert, a tree whose left spine has three nodes,
\* each with rank = size(left), the last with rank 0, and beside it a node
\* off the spine with no left child and rank 1.
C18_Witness ==
    /\ op.kind = "insert"
    /\ root # Nil
    /\ root.left # Nil
    /\ root.left.left # Nil
    /\ root.rank = Size(root.left)
    /\ root.left.rank = Size(root.left.left)
    /\ root.left.left.rank = 0
    /\ root.left.right # Nil
    /\ root.left.right.left = Nil
    /\ root.left.right.rank = 1

\* --------------------------------------------------------------------- C19
\* the difference get_balance computes, before it is returned as int8_t
DepthDifference(node) == get_depth(node.left) - get_depth(node.right)

\* the child each rotate call made at u dereferences is present
RotatedChildrenPresent(u) ==
    LET c == rotation_case(u.node, u.rank)
    IN /\ c \in {"LL", "LR"} => u.node.left # Nil
       /\ c = "LR" => u.node.left.right # Nil
       /\ c \in {"RR", "RL"} => u.node.right # Nil
       /\ c = "RL" => u.node.right.left # Nil
       /\ \A y \in RightRotateArgs(u) : y # Nil /\ y.left # Nil
       /\ \A x \in LeftRotateArgs(u) : x # Nil /\ x.right # Nil

\* C19: during every valid insert the balance factor computed at every node
\* of the unwinding path lies in -2..2 and is the depth difference itself
\* (the int8_t return loses nothing), and every right_rotate(y) has y.left
\* present and every left_rotate(x) has x.right present, the inner rotation
\* of a double rotation included.
C19_RotationSafety ==
    \A i \in PendingInserts : \A u \in Unwinding(i) :
        /\ DepthDifference(u.node) \in -2..2
        /\ get_balance(u.node) = DepthDifference(u.node)
        /\ RotatedChildrenPresent(u)

\* C19 witness: after an insert the tree has depth 3, and some next insert
\* finds a difference of 2 at a node and another a difference of -2, each
\* answered by a double rotation whose inner rotation has its child.
C19_Witness ==
    /\ op.kind = "insert"
    /\ root.depth = 3
    /\ \E i \in PendingInserts : \E u \in Unwinding(i) :
           rotation_case(u.node, u.rank) = "LR" /\ u.node.left.right # Nil
    /\ \E i \in PendingInserts : \E u \in Unwinding(i) :
           rotation_case(u.node, u.rank) = "RL" /\ u.node.right.left # Nil
    /\ \E i \in PendingInserts : \E u \in Unwinding(i) : DepthDifference(u.node) = 2
    /\ \E i \in PendingInserts : \E u \in Unwinding(i) : DepthDifference(u.node) = 0 - 2

\* --------------------------------------------------------------------- C20
\* a call of min_range that finds its node present and in range
InRange(c) ==
    /\ c.node # Nil
    /\ c.left # c.right
    /\ c.left <= c.node.rank
    /\ c.node.rank < c.right

\* C20 (as stated): in every range_min(lo, hi), 0 <= lo <= hi, whenever
\* min_range visits a present node n in range with include_right = true,
\* the translated interval covers the whole right subtree of n:
\* hi' - n.rank > size(n.right).
C20_IncludeRightSound ==
    \A q \in Queries : \A c \in QueryCalls(q) :
        (InRange(c) /\ c.include_right) => c.right - c.node.rank > Size(c.node.right)

\* C20, where the counter holds the number of elements: the claim holds
\* there, so it fails only through the uninitialised counter of C8, by which
\* operator() passes include_right = (right > n_nodes) for a right within
\* the sequence.
C20_HoldsWhenCounted == (n_nodes = Size(root)) => C20_IncludeRightSound

====
